---------------------------- MODULE Spec2Model ----------------------------
(***************************************************************************)
(* Model of process_portraits.py: the bottom-band background classifier,   *)
(* the batch analyzer and its grouping artifact, the auto-corrector, the   *)
(* grid planner / page renderer for both orientations, and the main loop   *)
(* over the requested year folders.                                        *)
(*                                                                         *)
(* Arithmetic is exact.  A channel average is the pair (channel sum, pixel *)
(* count) of the bottom band and every comparison of averages is done by   *)
(* cross-multiplication.  Lengths on the page are counted in 1/127 of a    *)
(* point, the unit in which the A4 page (210 mm x 297 mm, 72/25.4 points   *)
(* per mm), the margins and the spacing are all whole numbers; a cell size *)
(* is a fraction <<numerator, denominator>> of that unit.                  *)
(***************************************************************************)
EXTENDS Integers, Sequences, FiniteSets, TLC

VARIABLES
    img,          \* SpecClassify: the image handed to get_bottom_color
    result,       \* SpecClassify: what get_bottom_color returned
    images,       \* Spec, SpecMain: the *.png files of the year folder, by path
    artifact,     \* Spec, SpecMain: portrait_groups.json of the year folder
    last_call,    \* Spec: the last library call and what it returned
    image_paths,  \* SpecRender: the list handed to create_collage_pdf_*
    page,         \* SpecRender: what the call left behind
    plan,         \* SpecPlan: the planner's cols, rows and position in its loop
    args,         \* SpecMain: the parsed command line
    pc,           \* SpecMain: where main is: "loop", "done" or "crashed"
    year,         \* SpecMain: index into years_to_process of the next folder
    outcome       \* SpecMain: per requested folder, what the run did with it

classifyVars == <<img, result>>
dirVars      == <<images, artifact, last_call>>
renderVars   == <<image_paths, page, plan>>
mainVars     == <<args, pc, year, outcome>>
vars == <<img, result, images, artifact, last_call, image_paths, page, plan,
          args, pc, year, outcome>>

-----------------------------------------------------------------------------
(* Bounds of the model                                                     *)

\* channel averages are enumerated in half units from MinHalf to MaxHalf
MinHalf == 196
MaxHalf == 216

\* a year folder holds up to MaxFiles files, or the ScenarioSize borderline
\* images of the twelve-image scenario
MaxFiles == 3
ScenarioSize == 12

\* the renderer is given up to MaxImages good images, or any list of up to
\* MaxList files
MaxImages == 40
MaxList == 3

-----------------------------------------------------------------------------
(* Images                                                                  *)

Min2(a, b) == IF a <= b THEN a ELSE b
Abs(a) == IF a < 0 THEN 0 - a ELSE a

\* An image file.  opens: Image.open identifies it; loads: its pixel data
\* decodes; width, height: img.size; r_sum, g_sum, b_sum: the channel sums
\* over the pixels of the bottom band.
\* bottom_height = int(height * 0.05)
bottom_height(height) == (height * 5) \div 100

\* pixel_count = len(pixels) of the crop (0, height - bottom_height, width, height)
pixel_count(im) == im.width * bottom_height(im.height)

\* an image whose band has the channel averages r2/2, g2/2, b2/2
Img(w, h, r2, g2, b2) ==
    [opens |-> TRUE, loads |-> TRUE, width |-> w, height |-> h,
     r_sum |-> (r2 * w * bottom_height(h)) \div 2,
     g_sum |-> (g2 * w * bottom_height(h)) \div 2,
     b_sum |-> (b2 * w * bottom_height(h)) \div 2]

\* a file Image.open cannot identify, and one that opens but does not decode
NotAnImage == [Img(30, 40, 0, 0, 0) EXCEPT !.opens = FALSE, !.loads = FALSE]
Truncated(im) == [im EXCEPT !.loads = FALSE]

-----------------------------------------------------------------------------
(* get_bottom_color                                                        *)

MIN_DIFF == 5
MIN_VALUE == 100
MIN_SATURATION == 30
GREEN_PREFERENCE == 2

Raised == [raised |-> TRUE, color_type |-> "none", rgb |-> <<0, 0, 0>>]
Returned(label, rgb) == [raised |-> FALSE, color_type |-> label, rgb |-> rgb]

\* the ordered rule on the averages r_sum/n, g_sum/n, b_sum/n (n > 0)
classify_bug_strict(r_sum, g_sum, b_sum, n) ==
    IF g_sum - r_sum > MIN_DIFF * n /\ g_sum > b_sum /\ g_sum > MIN_VALUE * n
    THEN "green"
    ELSE IF g_sum - r_sum <= (0 - MIN_DIFF) * n /\ r_sum > b_sum /\ r_sum > MIN_VALUE * n
    THEN "orange"
    ELSE IF Abs(g_sum - r_sum) < MIN_DIFF * n
            /\ Min2(r_sum, g_sum) - b_sum > MIN_SATURATION * n
    THEN IF g_sum >= r_sum - GREEN_PREFERENCE * n THEN "green" ELSE "orange"
    ELSE "unknown"

classify(r_sum, g_sum, b_sum, n) ==
    IF g_sum - r_sum >= MIN_DIFF * n /\ g_sum > b_sum /\ g_sum > MIN_VALUE * n
    THEN "green"
    ELSE IF g_sum - r_sum <= (0 - MIN_DIFF) * n /\ r_sum > b_sum /\ r_sum > MIN_VALUE * n
    THEN "orange"
    ELSE IF Abs(g_sum - r_sum) < MIN_DIFF * n
            /\ Min2(r_sum, g_sum) - b_sum > MIN_SATURATION * n
    THEN IF g_sum >= r_sum - GREEN_PREFERENCE * n THEN "green" ELSE "orange"
    ELSE "unknown"

\* Image.open or the decoding of the crop raises; an empty band raises
\* ZeroDivisionError at avg_r = r_sum / pixel_count
get_bottom_color(im) ==
    IF ~im.opens \/ ~im.loads \/ pixel_count(im) = 0
    THEN Raised
    ELSE Returned(classify(im.r_sum, im.g_sum, im.b_sum, pixel_count(im)),
                  <<im.r_sum \div pixel_count(im),
                    im.g_sum \div pixel_count(im),
                    im.b_sum \div pixel_count(im)>>)

-----------------------------------------------------------------------------
(* The grouping artifact portrait_groups.json                              *)

\* no portrait_groups.json in the folder
NoArtifact ==
    [exists |-> FALSE, green_group |-> <<>>, orange_group |-> <<>>,
     unknown_group |-> <<>>,
     stats |-> [green_count |-> 0, orange_count |-> 0, unknown_count |-> 0, total |-> 0]]

\* A path is a number; the order of the numbers is the lexicographic order
\* of the path strings that list.sort() uses.
sorted(s) == SortSeq(s, LAMBDA a, b: a < b)

\* list.remove(x): drops the first occurrence of x
RECURSIVE list_remove(_, _)
list_remove(s, x) ==
    IF s = <<>> THEN <<>>
    ELSE IF Head(s) = x THEN Tail(s)
    ELSE <<Head(s)>> \o list_remove(Tail(s), x)

RECURSIVE remove_each(_, _)
remove_each(s, xs) ==
    IF xs = <<>> THEN s ELSE remove_each(list_remove(s, Head(xs)), Tail(xs))

-----------------------------------------------------------------------------
(* analyze_portraits                                                       *)

\* the except branch forgets the file
group_of_bug_dropped(im) ==
    LET r == get_bottom_color(im)
    IN  IF r.raised THEN "dropped"
        ELSE IF r.color_type = "green" THEN "green"
        ELSE IF r.color_type = "orange" THEN "orange"
        ELSE "unknown"

\* the collection a file is appended to: the label, or unknown_group when
\* get_bottom_color raised (the except branch)
group_of(im) ==
    LET r == get_bottom_color(im)
    IN  IF r.raised THEN "unknown"
        ELSE IF r.color_type = "green" THEN "green"
        ELSE IF r.color_type = "orange" THEN "orange"
        ELSE "unknown"

\* files: the images of the folder by path; png_files: the paths in the
\* order glob lists them
analyze_portraits(files, png_files) ==
    LET group         == [p \in DOMAIN files |-> group_of(files[p])]
        green_group   == SelectSeq(png_files, LAMBDA p: group[p] = "green")
        orange_group  == SelectSeq(png_files, LAMBDA p: group[p] = "orange")
        unknown_group == SelectSeq(png_files, LAMBDA p: group[p] = "unknown")
    IN  [exists |-> TRUE,
         green_group |-> green_group,
         orange_group |-> orange_group,
         unknown_group |-> unknown_group,
         stats |-> [green_count |-> Len(green_group),
                    orange_count |-> Len(orange_group),
                    unknown_count |-> Len(unknown_group),
                    total |-> Len(png_files)]]

-----------------------------------------------------------------------------
(* apply_auto_corrections                                                  *)

DEFAULT_THRESHOLD == -10

\* the test of one orange member: the band is read again and G-R compared
\* with the threshold; any exception leaves the member where it is
should_move_bug_strict(im, threshold) ==
    /\ im.opens /\ im.loads /\ pixel_count(im) > 0
    /\ im.g_sum - im.r_sum > threshold * pixel_count(im)

should_move(im, threshold) ==
    /\ im.opens /\ im.loads /\ pixel_count(im) > 0
    /\ im.g_sum - im.r_sum >= threshold * pixel_count(im)

to_move_bug_first_only(files, groups, threshold) ==
    LET all == SelectSeq(groups.orange_group, LAMBDA p: should_move(files[p], threshold))
    IN  IF all = <<>> THEN <<>> ELSE <<Head(all)>>

to_move(files, groups, threshold) ==
    SelectSeq(groups.orange_group, LAMBDA p: should_move(files[p], threshold))

\* the moves, the stats update and the two sorts
perform_moves_bug_stale_count(groups, moving) ==
    LET orange == remove_each(groups.orange_group, moving)
        green  == groups.green_group \o moving
    IN  [groups EXCEPT !.orange_group = sorted(orange),
                       !.green_group = sorted(green),
                       !.stats.green_count = Len(green)]

perform_moves(groups, moving) ==
    LET orange == remove_each(groups.orange_group, moving)
        green  == groups.green_group \o moving
    IN  [groups EXCEPT !.orange_group = sorted(orange),
                       !.green_group = sorted(green),
                       !.stats.green_count = Len(green),
                       !.stats.orange_count = Len(orange)]

\* what is written back, and the value returned
apply_auto_corrections(files, groups, threshold) ==
    LET moving == to_move(files, groups, threshold)
    IN  [groups |-> perform_moves(groups, moving), moved |-> Len(moving)]

-----------------------------------------------------------------------------
(* The grid planner and the renderer: create_collage_pdf_portrait and      *)
(* create_collage_pdf_landscape                                            *)

\* lengths in 1/127 point: A4 is 210 mm x 297 mm at 72/25.4 points per mm
A4_width == 75600
A4_height == 106920
margin == 2540
title_height == 3810
spacing == 635

\* available_width, available_height of the portrait and the landscape page
portrait_available_width   == A4_width - (2 * margin)
portrait_available_height  == A4_height - (2 * margin) - title_height
landscape_available_width  == A4_height - (2 * margin)
landscape_available_height == A4_width - (2 * margin) - title_height

\* math.ceil(a / b) for a >= 0, b > 0
ceil_div_bug_floor_plus_one(a, b) == (a \div b) + 1

ceil_div(a, b) == (a + b - 1) \div b

\* math.ceil(math.sqrt(n) * math.sqrt(w / h)): the least c with c*c*h >= n*w
initial_cols(n, w, h) ==
    CHOOSE c \in 0..(2 * n + 1) :
        /\ c * c * h >= n * w
        /\ \A d \in 0..(c - 1) : d * d * h < n * w

\* while cols > rows: cols -= 1; if cols < 1: cols = 1; break; rows = ceil(n / cols)
RECURSIVE portrait_adjust(_, _, _)
portrait_adjust(cols, rows, n) ==
    IF cols > rows
    THEN IF cols - 1 < 1
         THEN <<1, rows>>
         ELSE portrait_adjust(cols - 1, ceil_div(n, cols - 1), n)
    ELSE <<cols, rows>>

\* while rows > cols / 1.5: cols += 1; rows = ceil(n / cols)
RECURSIVE landscape_adjust(_, _, _)
landscape_adjust(cols, rows, n) ==
    IF 3 * rows > 2 * cols
    THEN landscape_adjust(cols + 1, ceil_div(n, cols + 1), n)
    ELSE <<cols, rows>>

\* <<cols, rows>> for total_images = n >= 1
portrait_grid(n) ==
    LET cols == initial_cols(n, portrait_available_width, portrait_available_height)
    IN  portrait_adjust(cols, ceil_div(n, cols), n)

landscape_grid(n) ==
    LET cols == initial_cols(n, landscape_available_width, landscape_available_height)
    IN  landscape_adjust(cols, ceil_div(n, cols), n)

\* img_width and img_height, each a fraction <<numerator, denominator>>,
\* for a cols x rows grid in a w x h area and the sample image's size
cell_size_bug_no_fallback(cols, rows, w, h, sample) ==
    LET wn == w - ((cols - 1) * spacing)
    IN  [img_width  |-> <<wn, cols>>,
         img_height |-> <<wn * sample.height, cols * sample.width>>]

cell_size(cols, rows, w, h, sample) ==
    LET wn == w - ((cols - 1) * spacing)
        wd == cols
        hn == wn * sample.height
        hd == wd * sample.width
        \* total_height_needed > available_height
        too_high == (hn * rows) + ((rows - 1) * spacing * hd) > h * hd
        fn == h - ((rows - 1) * spacing)
        fd == rows
    IN  IF too_high
        THEN [img_width  |-> <<fn * sample.width, fd * sample.height>>,
              img_height |-> <<fn, fd>>]
        ELSE [img_width |-> <<wn, wd>>, img_height |-> <<hn, hd>>]

\* the drawing loop: image idx goes to row idx // cols, column idx % cols; a
\* cell whose image raises in Image.open or drawImage stays empty
draw_cells(paths, cols) ==
    [k \in 1..Len(paths) |->
        [drawn |-> paths[k].opens /\ paths[k].loads,
         row |-> (k - 1) \div cols,
         col |-> (k - 1) % cols]]

\* what a call leaves behind: nothing for an empty list; an exception out of
\* Image.open(image_paths[0]) with no file saved; else the saved page
collage(paths, orientation, grid, w, h) ==
    IF paths = <<>>
    THEN [outcome |-> "skipped", orientation |-> orientation]
    ELSE IF ~paths[1].opens
    THEN [outcome |-> "raised", orientation |-> orientation,
          cols |-> grid[1], rows |-> grid[2]]
    ELSE [outcome |-> "written", orientation |-> orientation,
          cols |-> grid[1], rows |-> grid[2],
          size |-> cell_size(grid[1], grid[2], w, h, paths[1]),
          cells |-> draw_cells(paths, grid[1])]

create_collage_pdf_portrait(paths) ==
    collage(paths, "portrait",
            IF paths = <<>> THEN <<0, 0>> ELSE portrait_grid(Len(paths)),
            portrait_available_width, portrait_available_height)

create_collage_pdf_landscape(paths) ==
    collage(paths, "landscape",
            IF paths = <<>> THEN <<0, 0>> ELSE landscape_grid(Len(paths)),
            landscape_available_width, landscape_available_height)

-----------------------------------------------------------------------------
(* Values of the variables before anything has run                         *)

\* last_call: the call, its threshold argument, the value it returned and
\* whether it raised; again: it repeats the call before it (the same
\* function, the same threshold, and that call did not raise), which
\* returned before_moved
NoCall ==
    [op |-> "none", threshold |-> 0, moved |-> 0, raised |-> FALSE,
     again |-> FALSE, before_moved |-> 0]
Call(op, threshold, moved, raised) ==
    [op |-> op, threshold |-> threshold, moved |-> moved, raised |-> raised,
     again |-> (last_call.op = op /\ last_call.threshold = threshold /\ ~last_call.raised),
     before_moved |-> last_call.moved]
NoPage == [outcome |-> "none"]
NoPlan == [at |-> "idle", orientation |-> "portrait", n |-> 0, cols |-> 0, rows |-> 0,
           floored |-> FALSE, iterations |-> 0]
NoResult == [raised |-> FALSE, color_type |-> "pending", rgb |-> <<0, 0, 0>>]
NoArgs == [request |-> "none", auto_correct |-> FALSE, threshold |-> 0,
           orientation |-> "portrait"]

\* the variables of the parts a specification does not use
ClassifyIdle == img = NotAnImage /\ result = NoResult
FolderIdle   == images = <<>> /\ artifact = NoArtifact /\ last_call = NoCall
RenderIdle   == image_paths = <<>> /\ page = NoPage /\ plan = NoPlan
MainIdle     == args = NoArgs /\ pc = "idle" /\ year = 0 /\ outcome = <<>>

-----------------------------------------------------------------------------
(* SpecClassify: get_bottom_color applied to one image                     *)

\* width x height of the enumerated images: bands of 60, 80, 40 and 0 pixels
Dims == {<<30, 40>>, <<40, 40>>, <<40, 30>>, <<30, 10>>}
BlueHalves == {0, 130, 136, 138, 140, 142} \cup (MinHalf .. (MinHalf + 8))

ClassifyInputs ==
    {Img(d[1], d[2], r2, g2, b2) :
        d \in Dims, r2 \in MinHalf..MaxHalf, g2 \in MinHalf..MaxHalf, b2 \in BlueHalves}
    \cup {NotAnImage, Truncated(Img(30, 40, 200, 212, 100))}

InitClassify ==
    /\ img \in ClassifyInputs
    /\ result = NoResult
    /\ FolderIdle /\ RenderIdle /\ MainIdle

Classify ==
    /\ result = NoResult
    /\ result' = get_bottom_color(img)
    /\ UNCHANGED <<img, dirVars, renderVars, mainVars>>

NextClassify == Classify

SpecClassify == InitClassify /\ [][NextClassify]_vars

\* the averages of the classified image, as fractions over n
CR == img.r_sum
CG == img.g_sum
CB == img.b_sum
CN == pixel_count(img)
Classified == result # NoResult /\ ~result.raised

Rule2 == CG - CR >= 5 * CN /\ CG > CB /\ CG > 100 * CN
Rule3 == CG - CR <= (0 - 5) * CN /\ CR > CB /\ CR > 100 * CN
Rule4 == Abs(CG - CR) < 5 * CN /\ Min2(CR, CG) - CB > 30 * CN

\* C1: for every triple of band averages the label is the one the ordered
\* rule gives: GREEN if G-R >= 5, G > B, G > 100; else ORANGE if G-R <= -5,
\* R > B, R > 100; else, if |G-R| < 5 and min(R,G)-B > 30, GREEN when
\* G >= R-2 and ORANGE otherwise; UNKNOWN in every other case.
C1_OrderedRule ==
    Classified =>
        /\ Rule2 => result.color_type = "green"
        /\ (~Rule2 /\ Rule3) => result.color_type = "orange"
        /\ (~Rule2 /\ ~Rule3 /\ Rule4 /\ CG >= CR - 2 * CN) => result.color_type = "green"
        /\ (~Rule2 /\ ~Rule3 /\ Rule4 /\ CG < CR - 2 * CN) => result.color_type = "orange"
        /\ (~Rule2 /\ ~Rule3 /\ ~Rule4) => result.color_type = "unknown"

\* an image on the GREEN boundary G-R = 5 exactly, classified green
C1_Witness ==
    /\ Classified
    /\ CG - CR = 5 * CN
    /\ result.color_type = "green"

-----------------------------------------------------------------------------
(* Spec: analyze_portraits and apply_auto_corrections on one year folder   *)

\* the images a folder is filled with: G-R = 50, -20, -8, -3 and 0, and a
\* file that is no image
GreenImage      == Img(30, 40, 200, 300, 160)
OrangeImage     == Img(30, 40, 300, 260, 120)
BorderlineImage == Img(30, 40, 300, 284, 120)
AmbiguousImage  == Img(40, 40, 300, 294, 120)
GrayImage       == Img(40, 30, 200, 200, 200)
FolderImages ==
    {GreenImage, OrangeImage, BorderlineImage, AmbiguousImage, GrayImage, NotAnImage}

Thresholds == {DEFAULT_THRESHOLD, -8, -3}

\* the orders in which glob may list n files: every rotation of the
\* ascending and of the descending order
GlobOrders(n) ==
    {[i \in 1..n |-> ((i + k) % n) + 1] : k \in 0..(n - 1)}
    \cup {[i \in 1..n |-> n - ((i + k) % n)] : k \in 0..(n - 1)}
    \cup (IF n = 0 THEN {<<>>} ELSE {})

Init ==
    /\ \/ \E n \in 0..MaxFiles : images \in [1..n -> FolderImages]
       \/ images = [p \in 1..ScenarioSize |-> BorderlineImage]
    /\ artifact = NoArtifact
    /\ last_call = NoCall
    /\ ClassifyIdle /\ RenderIdle /\ MainIdle

AnalyzePortraits ==
    /\ \E png_files \in GlobOrders(Len(images)) :
          artifact' = analyze_portraits(images, png_files)
    /\ last_call' = Call("analyze_portraits", 0, 0, FALSE)
    /\ UNCHANGED <<images, classifyVars, renderVars, mainVars>>

ApplyAutoCorrections ==
    \E threshold \in Thresholds :
        IF artifact.exists
        THEN LET done == apply_auto_corrections(images, artifact, threshold)
             IN  /\ artifact' = done.groups
                 /\ last_call' = Call("apply_auto_corrections", threshold, done.moved, FALSE)
                 /\ UNCHANGED <<images, classifyVars, renderVars, mainVars>>
        ELSE \* open(json_file, 'r') raises
             /\ last_call' = Call("apply_auto_corrections", threshold, 0, TRUE)
             /\ UNCHANGED <<images, artifact, classifyVars, renderVars, mainVars>>

Next == AnalyzePortraits \/ ApplyAutoCorrections

Spec == Init /\ [][Next]_vars

Range(s) == {s[i] : i \in DOMAIN s}
Occurrences(s, x) == Cardinality({i \in DOMAIN s : s[i] = x})

\* the step is a run of apply_auto_corrections that read the artifact
Corrected == last_call'.op = "apply_auto_corrections" /\ ~last_call'.raised

\* the band of path p can be read again and its G-R is at least t
DiffAtLeast(p, t) ==
    /\ get_bottom_color(images[p]) # Raised
    /\ images[p].g_sum - images[p].r_sum >= t * pixel_count(images[p])

\* C2: a run of apply_auto_corrections moves a member of ORANGE to GREEN
\* exactly when its recomputed G-R is >= the threshold, and returns the
\* number of members moved; when all ScenarioSize (12) ORANGE members have
\* G-R = -8 and the threshold is -10, all of them are moved and the counts
\* become green = 12, orange = 0.
C2_MovesExactlyAtThreshold ==
    [][Corrected =>
        /\ \A p \in Range(artifact.orange_group) :
              (p \in Range(artifact'.green_group)) <=> DiffAtLeast(p, last_call'.threshold)
        /\ \A p \in Range(artifact.orange_group) :
              (p \notin Range(artifact'.orange_group)) <=> DiffAtLeast(p, last_call'.threshold)
        /\ last_call'.moved =
              Cardinality({p \in Range(artifact.orange_group) :
                              DiffAtLeast(p, last_call'.threshold)})
        /\ (/\ last_call'.threshold = -10
            /\ Len(artifact.orange_group) = ScenarioSize
            /\ artifact.stats.total = ScenarioSize
            /\ \A p \in Range(artifact.orange_group) :
                  images[p].g_sum - images[p].r_sum = (-8) * pixel_count(images[p]))
           => /\ last_call'.moved = ScenarioSize
              /\ artifact'.stats.green_count = ScenarioSize
              /\ artifact'.stats.orange_count = 0
    ]_vars

\* the scenario: twelve borderline images, all moved by the default threshold
C2_Witness ==
    /\ last_call.op = "apply_auto_corrections"
    /\ last_call.threshold = -10
    /\ last_call.moved = 12
    /\ artifact.stats.green_count = 12
    /\ artifact.stats.orange_count = 0
    /\ \A p \in DOMAIN images :
          images[p].g_sum - images[p].r_sum = (-8) * pixel_count(images[p])

\* C3: in the artifact analyze_portraits wrote, and after any number of
\* apply_auto_corrections runs, every file of the folder (a file whose
\* decoding raised included, which is in unknown_group) appears in exactly
\* one of the three groups, and each count is the size of its group.
C3_Partition ==
    artifact.exists =>
        /\ \A p \in DOMAIN images :
              Occurrences(artifact.green_group \o artifact.orange_group
                            \o artifact.unknown_group, p) = 1
        /\ \A p \in DOMAIN images :
              get_bottom_color(images[p]).raised => p \in Range(artifact.unknown_group)
        /\ artifact.stats.green_count = Len(artifact.green_group)
        /\ artifact.stats.orange_count = Len(artifact.orange_group)
        /\ artifact.stats.unknown_count = Len(artifact.unknown_group)

\* a corrected artifact of a folder that holds a file that failed to decode
C3_Witness ==
    /\ artifact.exists
    /\ last_call.op = "apply_auto_corrections"
    /\ last_call.moved > 0
    /\ \E p \in DOMAIN images : get_bottom_color(images[p]).raised
    /\ artifact.orange_group # <<>>

\* C4: a run of apply_auto_corrections only moves items from ORANGE to
\* GREEN: nothing leaves green_group, nothing is added to orange_group,
\* unknown_group, unknown_count and total are unchanged, and the three
\* counts still add up to total.
C4_OnlyOrangeToGreen ==
    [][Corrected =>
        /\ \A p \in Range(artifact.green_group) :
              Occurrences(artifact'.green_group, p) >= Occurrences(artifact.green_group, p)
        /\ \A p \in Range(artifact'.orange_group) :
              Occurrences(artifact'.orange_group, p) <= Occurrences(artifact.orange_group, p)
        /\ \A p \in Range(artifact'.green_group) :
              p \in Range(artifact.green_group) \cup Range(artifact.orange_group)
        /\ artifact'.unknown_group = artifact.unknown_group
        /\ artifact'.stats.unknown_count = artifact.stats.unknown_count
        /\ artifact'.stats.total = artifact.stats.total
        /\ artifact'.stats.green_count + artifact'.stats.orange_count
              + artifact'.stats.unknown_count = artifact'.stats.total
    ]_vars

\* a run that moved something into a green_group that held items, with unknown_group inhabited
C4_Witness ==
    /\ last_call.op = "apply_auto_corrections"
    /\ last_call.moved > 0
    /\ Len(artifact.green_group) > last_call.moved
    /\ artifact.unknown_group # <<>>

\* the step is a second run in a row with the threshold of the run before
CorrectedAgain ==
    /\ Corrected
    /\ last_call.op = "apply_auto_corrections" /\ ~last_call.raised
    /\ last_call'.threshold = last_call.threshold

\* C5: running apply_auto_corrections twice in a row with the same
\* threshold moves nothing the second time, and the second run leaves the
\* groups and the counts as the first run wrote them.
C5_Idempotent ==
    [][CorrectedAgain => (last_call'.moved = 0 /\ artifact' = artifact)]_vars

\* a second run in a row after a first run that moved something
C5_Witness ==
    /\ last_call.op = "apply_auto_corrections"
    /\ last_call.again
    /\ last_call.before_moved > 0
    /\ last_call.moved = 0
    /\ artifact.orange_group # <<>>

-----------------------------------------------------------------------------
(* SpecRender: create_collage_pdf_portrait and _landscape on one list      *)

\* the lists handed to the renderer: up to MaxImages copies of one good
\* image, and every list of up to MaxList files that may fail to load
GoodImages == {Img(30, 40, 200, 300, 160), Img(40, 40, 200, 300, 160),
               Img(40, 30, 200, 300, 160)}
ListFiles == {Img(30, 40, 200, 300, 160), Img(40, 30, 300, 260, 120),
              Truncated(Img(30, 40, 200, 300, 160)), NotAnImage}

InitRender ==
    /\ \/ \E n \in 1..MaxImages : \E good \in GoodImages :
             image_paths = [k \in 1..n |-> good]
       \/ \E n \in 0..MaxList : image_paths \in [1..n -> ListFiles]
    /\ page = NoPage
    /\ plan = NoPlan
    /\ ClassifyIdle /\ FolderIdle /\ MainIdle

CreateCollagePdfPortrait ==
    /\ page' = create_collage_pdf_portrait(image_paths)
    /\ UNCHANGED <<image_paths, plan, classifyVars, dirVars, mainVars>>

CreateCollagePdfLandscape ==
    /\ page' = create_collage_pdf_landscape(image_paths)
    /\ UNCHANGED <<image_paths, plan, classifyVars, dirVars, mainVars>>

NextRender == CreateCollagePdfPortrait \/ CreateCollagePdfLandscape

SpecRender == InitRender /\ [][NextRender]_vars

Planned == page.outcome \in {"raised", "written"}
Written == page.outcome = "written"
PrintableHeight ==
    IF page.orientation = "portrait" THEN 98030 ELSE 66710

\* C6: for both planners and every N >= 1 the final grid has C * R >= N, so
\* every index i < N has row i // C < R, and the cell height the page is
\* drawn with satisfies cellHeight * R + (R-1) * spacing <= printable height.
C6_GridHoldsAll ==
    /\ Planned =>
          /\ page.cols >= 1
          /\ page.cols * page.rows >= Len(image_paths)
          /\ \A i \in 0..(Len(image_paths) - 1) : i \div page.cols < page.rows
    /\ Written =>
          (page.size.img_height[1] * page.rows)
             + ((page.rows - 1) * 635 * page.size.img_height[2])
          <= PrintableHeight * page.size.img_height[2]

\* a landscape page whose cell height came from the height constraint
C6_Witness ==
    /\ Written
    /\ page.orientation = "landscape"
    /\ Len(image_paths) >= 30
    /\ page.size.img_height[2] = page.rows
    /\ page.cols * page.rows > Len(image_paths)

C9_NoAbort ==
    (image_paths # <<>> /\ page.outcome # "none") =>
        /\ Written
        /\ \A k \in 1..Len(image_paths) :
              /\ page.cells[k].drawn <=> (image_paths[k].opens /\ image_paths[k].loads)
              /\ page.cells[k].row = (k - 1) \div page.cols
              /\ page.cells[k].col = (k - 1) % page.cols

-----------------------------------------------------------------------------
(* SpecMain: main over the requested year folders, process_year for each   *)

\* years_to_process: SP23, SP24, SP25 for --all, one folder for a year
\* argument, nothing (print_help and return) without either
years_to_process(a) ==
    IF a.request = "all" THEN <<"SP23", "SP24", "SP25">>
    ELSE IF a.request = "one" THEN <<"SP23">>
    ELSE <<>>

\* A year folder as the run finds it.  exists: year_path.exists(); files:
\* its *.png images by path; png_files: the order glob lists them in;
\* writable: portrait_groups.json can be opened for writing; readable_back:
\* it can be opened for reading afterwards.
MissingFolder ==
    [exists |-> FALSE, files |-> <<>>, png_files |-> <<>>,
     writable |-> FALSE, readable_back |-> FALSE]
\* the folders a run meets: a missing one, an empty one, and folders of one
\* or two images of each group, in every order glob may list them, each
\* writable or not and, when writable, with an artifact that can or cannot
\* be read back
FolderContents ==
    {<<>>, <<GreenImage>>, <<OrangeImage>>, <<BorderlineImage>>, <<NotAnImage>>,
     <<GreenImage, OrangeImage>>, <<BorderlineImage, GreenImage>>}
FolderStates ==
    {MissingFolder} \cup
    UNION {{[exists |-> TRUE, files |-> f, png_files |-> o,
             writable |-> w, readable_back |-> w /\ r] :
               o \in GlobOrders(Len(f)), w \in BOOLEAN, r \in BOOLEAN} :
           f \in FolderContents}

\* the calls of the two PDF sections of process_year, in source order:
\* <<file name stem, orientation, group>>
pdf_calls(results, orientation) ==
    (IF orientation \in {"portrait", "both"} /\ results.green_group # <<>>
     THEN <<[stem |-> "speldesignstudenter", orientation |-> "portrait",
             group |-> results.green_group]>> ELSE <<>>)
    \o (IF orientation \in {"portrait", "both"} /\ results.orange_group # <<>>
     THEN <<[stem |-> "spelgrafikstudenter", orientation |-> "portrait",
             group |-> results.orange_group]>> ELSE <<>>)
    \o (IF orientation \in {"landscape", "both"} /\ results.green_group # <<>>
     THEN <<[stem |-> "speldesignstudenter", orientation |-> "landscape",
             group |-> results.green_group]>> ELSE <<>>)
    \o (IF orientation \in {"landscape", "both"} /\ results.orange_group # <<>>
     THEN <<[stem |-> "spelgrafikstudenter", orientation |-> "landscape",
             group |-> results.orange_group]>> ELSE <<>>)

\* the PDF files written, and whether a call raised (the calls after it are
\* not made)
generate_pdfs(files, results, orientation) ==
    LET calls == pdf_calls(results, orientation)
        made(k) ==
            LET paths == [j \in 1..Len(calls[k].group) |-> files[calls[k].group[j]]]
            IN  IF calls[k].orientation = "portrait"
                THEN create_collage_pdf_portrait(paths)
                ELSE create_collage_pdf_landscape(paths)
        raising == {k \in 1..Len(calls) : made(k).outcome = "raised"}
        reached(k) == \A j \in raising : k < j
    IN  [raised |-> raising # {},
         pages  |-> {<<calls[k].stem, calls[k].orientation>> :
                        k \in {j \in 1..Len(calls) : reached(j)}}]

\* process_year: analyze, correct when asked to, reload when something
\* moved, generate the PDFs.  Returns whether portrait_groups.json was
\* written, its content, the PDF files written, and whether an exception
\* left the call.
process_year(folder, a) ==
    LET analyzed == analyze_portraits(folder.files, folder.png_files)
        done     == apply_auto_corrections(folder.files, analyzed, a.threshold)
        results  == IF a.auto_correct /\ done.moved > 0 THEN done.groups ELSE analyzed
        pdfs     == generate_pdfs(folder.files, results, a.orientation)
    IN  IF ~folder.writable
        THEN \* open(output_file, 'w') raises in analyze_portraits
             [raised |-> TRUE, wrote_artifact |-> FALSE, artifact |-> NoArtifact,
              pages |-> {}]
        ELSE IF a.auto_correct /\ ~folder.readable_back
        THEN \* open(json_file, 'r') raises in apply_auto_corrections
             [raised |-> TRUE, wrote_artifact |-> TRUE, artifact |-> analyzed,
              pages |-> {}]
        ELSE [raised |-> pdfs.raised, wrote_artifact |-> TRUE,
              artifact |-> IF a.auto_correct THEN done.groups ELSE analyzed,
              pages |-> pdfs.pages]

\* png_files = list(year_path.glob('*.png')); if not png_files: skip
has_png_files_bug_unchecked(folder) == TRUE

has_png_files(folder) == folder.files # <<>>

Pending ==
    [status |-> "pending", exists |-> FALSE, png_count |-> 0,
     wrote_artifact |-> FALSE, pages |-> {}]

InitMain ==
    /\ args \in [request : {"all", "one", "none"}, auto_correct : BOOLEAN,
                 threshold : {DEFAULT_THRESHOLD}, orientation : {"portrait", "landscape", "both"}]
    /\ pc = "loop"
    /\ year = 1
    /\ outcome = [b \in 1..Len(years_to_process(args)) |-> Pending]
    /\ ClassifyIdle /\ FolderIdle /\ RenderIdle

Looping == pc = "loop" /\ year <= Len(years_to_process(args))

\* if not year_path.exists(): warning, continue
SkipMissingFolder ==
    /\ Looping
    /\ \E folder \in FolderStates :
          /\ ~folder.exists
          /\ outcome' = [outcome EXCEPT ![year] = [Pending EXCEPT !.status = "missing"]]
    /\ year' = year + 1
    /\ UNCHANGED <<args, pc, images, artifact, last_call, classifyVars, renderVars>>

\* if not png_files: warning, continue
SkipEmptyFolder ==
    /\ Looping
    /\ \E folder \in FolderStates :
          /\ folder.exists
          /\ ~has_png_files(folder)
          /\ outcome' = [outcome EXCEPT ![year] =
                            [Pending EXCEPT !.status = "empty", !.exists = TRUE,
                                            !.png_count = Len(folder.files)]]
    /\ year' = year + 1
    /\ UNCHANGED <<args, pc, images, artifact, last_call, classifyVars, renderVars>>

\* process_year(...): an exception out of it ends main
ProcessYear ==
    /\ Looping
    /\ \E folder \in FolderStates :
          /\ folder.exists
          /\ has_png_files(folder)
          /\ LET r == process_year(folder, args)
             IN  /\ outcome' = [outcome EXCEPT ![year] =
                                   [status |-> IF r.raised THEN "raised" ELSE "processed",
                                    exists |-> TRUE,
                                    png_count |-> Len(folder.files),
                                    wrote_artifact |-> r.wrote_artifact,
                                    pages |-> r.pages]]
                 /\ pc' = IF r.raised THEN "crashed" ELSE "loop"
                 /\ year' = IF r.raised THEN year ELSE year + 1
    /\ UNCHANGED <<args, dirVars, classifyVars, renderVars>>

\* the for loop is exhausted (or print_help was called): main returns
MainReturn ==
    /\ pc = "loop"
    /\ year > Len(years_to_process(args))
    /\ pc' = "done"
    /\ UNCHANGED <<args, year, outcome, images, artifact, last_call,
                   classifyVars, renderVars>>

NextMain == SkipMissingFolder \/ SkipEmptyFolder \/ ProcessYear \/ MainReturn

SpecMain == InitMain /\ [][NextMain]_vars

Requested == 1..Len(years_to_process(args))

\* C8: when one of several requested folders hits an artifact-level failure
\* (the artifact cannot be written, or read back for the correction, or the
\* folder is missing) only that folder is lost: when the run ends, every
\* requested folder has had its turn.
C8_FailureIsLocal ==
    pc \in {"done", "crashed"} => \A b \in Requested : outcome[b].status # "pending"

\* C10: a requested folder that exists and holds no *.png file is skipped:
\* no artifact is written for it, no page file is created for it, and the
\* run goes on to the next requested folder.
C10_EmptyFolderSkipped ==
    \A b \in Requested :
        (outcome[b].status # "pending" /\ outcome[b].exists /\ outcome[b].png_count = 0) =>
            /\ ~outcome[b].wrote_artifact
            /\ outcome[b].pages = {}
            /\ outcome[b].status = "empty"
            /\ year > b
            /\ pc = "crashed" => outcome[year].status = "raised"

\* an empty first folder was skipped and the folder after it was processed
C10_Witness ==
    /\ Len(outcome) = 3
    /\ outcome[1].status = "empty"
    /\ outcome[2].status = "processed"
    /\ outcome[2].wrote_artifact
    /\ outcome[2].pages # {}

-----------------------------------------------------------------------------
(* SpecPlan: the orientation adjustment loops of the two planners, one     *)
(* iteration per step                                                      *)

\* one pass through the body of "while cols > rows" (lines 201-205): the
\* new cols and rows, and whether the floor-at-1 branch left the loop
portrait_body_bug_rows_kept(cols, rows, n) ==
    IF cols - 1 < 1
    THEN [cols |-> 1, rows |-> rows, floored |-> TRUE]
    ELSE [cols |-> cols - 1, rows |-> rows, floored |-> FALSE]

portrait_body(cols, rows, n) ==
    IF cols - 1 < 1
    THEN [cols |-> 1, rows |-> rows, floored |-> TRUE]
    ELSE [cols |-> cols - 1, rows |-> ceil_div(n, cols - 1), floored |-> FALSE]

\* one pass through the body of "while rows > cols / 1.5" (lines 286-287)
landscape_body(cols, rows, n) ==
    [cols |-> cols + 1, rows |-> ceil_div(n, cols + 1), floored |-> FALSE]

\* the loop conditions
portrait_continues(cols, rows) == cols > rows
landscape_continues(cols, rows) == 3 * rows > 2 * cols

InitPlan ==
    /\ \E n \in 1..MaxImages : \E o \in {"portrait", "landscape"} :
          plan = [NoPlan EXCEPT !.at = "start", !.orientation = o, !.n = n]
    /\ image_paths = <<>>
    /\ page = NoPage
    /\ ClassifyIdle /\ FolderIdle /\ MainIdle

PlanFrame == UNCHANGED <<image_paths, page, classifyVars, dirVars, mainVars>>

\* cols = ceil(base * sqrt(page_aspect)); rows = ceil(total_images / cols)
PlanStart ==
    /\ plan.at = "start"
    /\ LET cols == IF plan.orientation = "portrait"
                   THEN initial_cols(plan.n, portrait_available_width,
                                     portrait_available_height)
                   ELSE initial_cols(plan.n, landscape_available_width,
                                     landscape_available_height)
       IN  plan' = [plan EXCEPT !.at = "loop", !.cols = cols,
                                !.rows = ceil_div(plan.n, cols)]
    /\ PlanFrame

PortraitIterate ==
    /\ plan.at = "loop"
    /\ plan.orientation = "portrait"
    /\ portrait_continues(plan.cols, plan.rows)
    /\ LET b == portrait_body(plan.cols, plan.rows, plan.n)
       IN  plan' = [plan EXCEPT !.cols = b.cols, !.rows = b.rows,
                                !.floored = b.floored,
                                !.at = IF b.floored THEN "done" ELSE "loop",
                                !.iterations = plan.iterations + 1]
    /\ PlanFrame

LandscapeIterate ==
    /\ plan.at = "loop"
    /\ plan.orientation = "landscape"
    /\ landscape_continues(plan.cols, plan.rows)
    /\ LET b == landscape_body(plan.cols, plan.rows, plan.n)
       IN  plan' = [plan EXCEPT !.cols = b.cols, !.rows = b.rows,
                                !.iterations = plan.iterations + 1]
    /\ PlanFrame

\* the loop condition is false: the loop is left
PlanExit ==
    /\ plan.at = "loop"
    /\ \/ plan.orientation = "portrait" /\ ~portrait_continues(plan.cols, plan.rows)
       \/ plan.orientation = "landscape" /\ ~landscape_continues(plan.cols, plan.rows)
    /\ plan' = [plan EXCEPT !.at = "done"]
    /\ PlanFrame

NextPlan == PlanStart \/ PortraitIterate \/ LandscapeIterate \/ PlanExit

\* the function runs on: a step that can be taken is taken
SpecPlan == InitPlan /\ [][NextPlan]_vars /\ WF_vars(NextPlan)

PlanDone == plan.at = "done"

\* C11: for every N >= 1 the adjustment loop ends, with C >= 1 and
\* R = ceil(N / C); the portrait loop ends with C <= R and never through its
\* floor-at-1 branch, the landscape loop ends with R <= C / 1.5.
C11_LoopEnds ==
    /\ <>PlanDone
    /\ [](PlanDone =>
            /\ plan.cols >= 1
            /\ (plan.rows - 1) * plan.cols < plan.n
            /\ plan.n <= plan.rows * plan.cols
            /\ plan.orientation = "portrait" =>
                  (plan.cols <= plan.rows /\ ~plan.floored)
            /\ plan.orientation = "landscape" => 3 * plan.rows <= 2 * plan.cols)

\* a portrait loop that ended after decrementing cols
C11_Witness ==
    /\ PlanDone
    /\ plan.orientation = "portrait"
    /\ plan.iterations >= 1
    /\ plan.n >= 3

=============================================================================
